---- MODULE Spec2Model ----
(***************************************************************************)
(* Model of the colonoscopy ("medic") health aggregation service:          *)
(*   src/src/server.rs  polling_task, get_health, set_probe                *)
(*   src/src/types.rs   StatusColor, ServiceStatus, the PyAny conversion   *)
(* The poller invokes every configured probe, aggregates the collected     *)
(* statuses and replaces the tree held in an Arc<RwLock<ServiceStatus>>;   *)
(* HTTP handlers clone the tree under the read lock.                       *)
(***************************************************************************)
EXTENDS Integers, Sequences, FiniteSets, TLC

(***************************************************************************)
(* Bounds of the model.                                                    *)
(***************************************************************************)
\* largest number of probes handed to set_probe
MaxProbes == 3
\* number of poll cycles a behaviour may start
MaxCycles == 2
\* number of HTTP clients issuing GET /health
NReaders == 2

VARIABLES
    py_services,   \* polling_task: the configured probes, in order
    tree,          \* the ServiceStatus inside Arc<RwLock<..>>
    rw_readers,    \* RwLock: handlers holding a read guard
    rw_writer,     \* RwLock: TRUE while the write guard is held
    rw_waiters,    \* RwLock: FIFO queue of tasks waiting for a guard
    pc,            \* polling_task: position in the loop body
    idx,           \* polling_task: index of the probe the for loop is at
    sub_statuses,  \* polling_task: the Vec collected in this cycle
    global_status, \* polling_task: the aggregated colour of this cycle
    cycle,         \* history: number of cycles started
    nwrites,       \* history: number of trees written to the lock
    failed,        \* history: probes whose invocation failed in this cycle
    returned,      \* history: the value health() resolved to, where recorded
    rpc,           \* get_health: position of each handler
    resp,          \* get_health: the clone being built / returned
    rver,          \* history: publish number of each field of resp
    issuedAt,      \* history: nwrites when the request was issued
    lastSeen       \* history: publish number the client saw last

vars == <<py_services, tree, rw_readers, rw_writer, rw_waiters, pc, idx,
          sub_statuses, global_status, cycle, nwrites, failed, rpc, resp,
          rver, issuedAt, lastSeen, returned>>

pollerVars == <<pc, idx, sub_statuses, global_status, cycle, failed, returned>>
readerVars == <<rpc, resp, rver, issuedAt, lastSeen>>

(***************************************************************************)
(* types.rs                                                                *)
(***************************************************************************)
StatusColor == {"Red", "Orange", "Green"}

\* Option<String>
None == [some |-> FALSE, val |-> ""]
Some(s) == [some |-> TRUE, val |-> s]

ServiceStatus(name, status, description, subservices) ==
    [name |-> name, status |-> status, description |-> description,
     subservices |-> subservices]

\* ServiceStatus::new, the Python constructor
ServiceStatus_new(name, status, description, subservices) ==
    ServiceStatus(name, status, description,
                  IF subservices.some THEN subservices.val ELSE <<>>)

\* variant: the colour names are matched whatever their letter case
py_status_to_rust_ignoreCase(color) ==
    CASE color \in {"GREEN", "green", "Green"}    -> "Green"
      [] color \in {"ORANGE", "orange", "Orange"} -> "Orange"
      [] OTHER                                    -> "Red"

py_status_to_rust(color) ==
    CASE color = "GREEN"  -> "Green"
      [] color = "ORANGE" -> "Orange"
      [] OTHER            -> "Red"

(***************************************************************************)
(* Python values a probe can hand back.  A value is a native ServiceStatus *)
(* instance, a dict, or anything else; a dict item is a str, None or a     *)
(* value of another type.                                                  *)
(***************************************************************************)
PyStr(s)   == [t |-> "str", s |-> s]
PyNone     == [t |-> "none", s |-> ""]
\* a list of ServiceStatus objects
PyList(l)  == [t |-> "list", s |-> "", l |-> l]

NoItems == [k \in {} |-> PyNone]
NoValue == ServiceStatus("", "Red", None, <<>>)

PyNative(v) == [kind |-> "ServiceStatus", value |-> v, items |-> NoItems]
PyDict(items) == [kind |-> "dict", value |-> NoValue, items |-> items]
PyOther == [kind |-> "other", value |-> NoValue, items |-> NoItems]

Ok(v)  == [ok |-> TRUE, value |-> v, err |-> ""]
Err(e) == [ok |-> FALSE, value |-> NoValue, err |-> e]

\* dict.get_item(key)?.ok_or_else(KeyError)?.extract::<String>()
ExtractString(dict, key) ==
    IF key \notin DOMAIN dict.items THEN [ok |-> FALSE, s |-> "", err |-> "KeyError"]
    ELSE IF dict.items[key].t # "str" THEN [ok |-> FALSE, s |-> "", err |-> "TypeError"]
    ELSE [ok |-> TRUE, s |-> dict.items[key].s, err |-> ""]

\* dict.get_item("description")?.map(|d| d.extract()).transpose()? : Option<String>
ExtractDescription(dict) ==
    IF "description" \notin DOMAIN dict.items THEN [ok |-> TRUE, d |-> None, err |-> ""]
    ELSE IF dict.items["description"].t = "none" THEN [ok |-> TRUE, d |-> None, err |-> ""]
    ELSE IF dict.items["description"].t = "str"
         THEN [ok |-> TRUE, d |-> Some(dict.items["description"].s), err |-> ""]
    ELSE [ok |-> FALSE, d |-> None, err |-> "TypeError"]

dict_to_status(dict) ==
    LET name == ExtractString(dict, "name")
        status_str == ExtractString(dict, "status")
        description == ExtractDescription(dict)
    IN  IF ~name.ok THEN Err(name.err)
        ELSE IF ~status_str.ok THEN Err(status_str.err)
        ELSE IF ~description.ok THEN Err(description.err)
        ELSE Ok(ServiceStatus(name.s, py_status_to_rust(status_str.s),
                              description.d, <<>>))

\* impl TryFrom<&PyAny> for ServiceStatus
try_from(obj) ==
    IF obj.kind = "ServiceStatus" THEN Ok(obj.value)
    ELSE IF obj.kind # "dict" THEN Err("PyDowncastError")
    ELSE dict_to_status(obj)

\* #[serde(rename_all = "UPPERCASE")] on StatusColor
StatusName(status) ==
    CASE status = "Red"    -> "RED"
      [] status = "Orange" -> "ORANGE"
      [] status = "Green"  -> "GREEN"

\* #[derive(Serialize)] on ServiceStatus: the JSON object of a node whose
\* children serialize to subs; description is skipped if Option::is_none,
\* subservices if Vec::is_empty
to_json(node, subs) ==
    LET keys == {"name", "status"}
                \cup (IF node.description.some THEN {"description"} ELSE {})
                \cup (IF node.subservices # <<>> THEN {"subservices"} ELSE {})
    IN  [k \in keys |->
           CASE k = "name" -> node.name
             [] k = "status" -> StatusName(node.status)
             [] k = "description" -> node.description.val
             [] k = "subservices" -> subs]

\* Json(tree.clone()): the body of GET /health
RECURSIVE Json(_)
Json(node) ==
    to_json(node, [k \in DOMAIN node.subservices |-> Json(node.subservices[k])])

(***************************************************************************)
(* The probes.  A probe is an opaque Python object; what its health()      *)
(* does in a given cycle is chosen by the environment.                     *)
(***************************************************************************)
ProbeNames == <<"db", "api", "auth", "cache">>

\* the py_services vectors set_probe may be given
Configurations == {SubSeq(ProbeNames, 1, n) : n \in 0..MaxProbes}

\* the configurations explored together with HTTP clients: the requests
\* multiply every state of the poller, so the probes are kept to one
ServedConfigurations == {<<>>, <<"db">>}

Items2(name, status) ==
    [k \in {"name", "status"} |-> IF k = "name" THEN PyStr(name) ELSE PyStr(status)]

\* the values the health() coroutine of probe p may resolve to
HealthResults(p) ==
    {PyNative(ServiceStatus(p, c, None, <<>>)) : c \in StatusColor}
    \cup {PyDict(Items2(p, s)) : s \in {"GREEN", "ORANGE", "green"}}
    \cup {PyDict([k \in {"status"} |-> PyStr("GREEN")]), PyOther}

\* a wider choice of values, for the conversion: natives with and without
\* description and children, dicts with each key absent, of the wrong type,
\* or holding one of several strings
Absent == [t |-> "absent", s |-> ""]

Replica == ServiceStatus("replica", "Red", None, <<>>)

DictOf(name, status, description, subservices) ==
    LET given == [k \in {"name", "status", "description", "subservices"} |->
                    CASE k = "name" -> name
                      [] k = "status" -> status
                      [] k = "description" -> description
                      [] k = "subservices" -> subservices]
    IN  PyDict([k \in {j \in DOMAIN given : given[j].t # "absent"} |-> given[k]])

StatusStrings == {"GREEN", "ORANGE", "RED", "green", "Orange", "down"}

PyObjects(p) ==
    {PyNative(ServiceStatus_new(p, c, d, subs)) :
        c \in StatusColor,
        d \in {None, Some(""), Some("slow")},
        subs \in {None, Some(<<Replica>>)}}
    \cup {DictOf(n, st, d, subs) :
        n \in {Absent, PyNone, PyStr(p)},
        st \in {Absent, PyNone} \cup {PyStr(x) : x \in StatusStrings},
        d \in {Absent, PyNone, PyStr(""), PyStr("slow"), PyList(<<>>)},
        subs \in {Absent, PyList(<<Replica>>)}}
    \cup {PyOther}

(***************************************************************************)
(* server.rs: polling_task                                                 *)
(***************************************************************************)
Poller == 0
Readers == 1..NReaders

\* variant: one Green child is enough for a Green root
aggregate_anyGreen(statuses) ==
    IF \E k \in DOMAIN statuses : statuses[k].status = "Green" THEN "Green"
    ELSE IF \E k \in DOMAIN statuses : statuses[k].status = "Red" THEN "Red"
    ELSE "Orange"

\* variant: Orange is looked for before Red
aggregate_orangeFirst(statuses) ==
    IF \A k \in DOMAIN statuses : statuses[k].status = "Green" THEN "Green"
    ELSE IF \E k \in DOMAIN statuses : statuses[k].status = "Orange" THEN "Orange"
    ELSE "Red"

\* variant: whatever is not all Green is Red
aggregate_notGreenIsRed(statuses) ==
    IF \A k \in DOMAIN statuses : statuses[k].status = "Green" THEN "Green"
    ELSE "Red"

\* variant: nothing collected is reported as Orange
aggregate_emptyOrange(statuses) ==
    IF statuses = <<>> THEN "Orange"
    ELSE IF \A k \in DOMAIN statuses : statuses[k].status = "Green" THEN "Green"
    ELSE IF \E k \in DOMAIN statuses : statuses[k].status = "Red" THEN "Red"
    ELSE "Orange"

\* lines 126-138: the colour of the root
aggregate(statuses) ==
    IF \A k \in DOMAIN statuses : statuses[k].status = "Green" THEN "Green"
    ELSE IF \E k \in DOMAIN statuses : statuses[k].status = "Red" THEN "Red"
    ELSE "Orange"

\* variant: the placeholder carries no description
WarmingUp_noDescription == ServiceStatus("medic", "Orange", None, <<>>)

\* set_probe, lines 161-166: the tree the lock is created with
WarmingUp == ServiceStatus("medic", "Orange", Some("warming up"), <<>>)

\* variant: the collected statuses are left out of the tree
NewTree_dropsChildren(status, subs) == ServiceStatus("medic", status, None, <<>>)

\* lines 140-145: the tree built for the write
NewTree(status, subs) == ServiceStatus("medic", status, None, subs)

(***************************************************************************)
(* tokio::sync::RwLock: fair, a task that cannot get its guard at once     *)
(* queues, and released permits go to the head of the queue.               *)
(***************************************************************************)
ReadAvailable == ~rw_writer /\ rw_waiters = <<>>

\* variant: the write guard is handed out while read guards are held
WriteAvailable_ignoresReaders == ~rw_writer /\ rw_waiters = <<>>

WriteAvailable == ~rw_writer /\ rw_readers = {} /\ rw_waiters = <<>>

RECURSIVE Grant(_, _, _)
Grant(R, W, q) ==
    IF W \/ q = <<>> THEN [readers |-> R, writer |-> W, waiters |-> q]
    ELSE IF Head(q) = Poller
         THEN IF R = {} THEN [readers |-> R, writer |-> TRUE, waiters |-> Tail(q)]
              ELSE [readers |-> R, writer |-> W, waiters |-> q]
    ELSE Grant(R \cup {Head(q)}, W, Tail(q))

\* a guard is dropped: the lock is left with readers R and no writer
Release(R, pcNow, rpcNow) ==
    LET g == Grant(R, FALSE, rw_waiters)
    IN  /\ rw_readers' = g.readers
        /\ rw_writer' = g.writer
        /\ rw_waiters' = g.waiters
        /\ pc' = IF g.writer THEN "write" ELSE pcNow
        /\ rpc' = [r \in Readers |->
                     IF r \in g.readers \ R THEN "locked" ELSE rpcNow[r]]

InitWith(configurations) ==
    /\ py_services \in configurations
    /\ tree = WarmingUp
    /\ rw_readers = {}
    /\ rw_writer = FALSE
    /\ rw_waiters = <<>>
    /\ pc = "spawned"
    /\ idx = 1
    /\ sub_statuses = <<>>
    /\ global_status = "Green"
    /\ cycle = 0
    /\ nwrites = 0
    /\ failed = {}
    /\ rpc = [r \in Readers |-> "idle"]
    /\ resp = [r \in Readers |-> NoValue]
    /\ rver = [r \in Readers |-> [status |-> 0, subservices |-> 0]]
    /\ issuedAt = [r \in Readers |-> 0]
    /\ lastSeen = [r \in Readers |-> 0]
    /\ returned = PyOther

\* set_probe: the service is started with its probes
Init == InitWith(ServedConfigurations)

\* lines 103-104, 147: the task was just spawned or the interval elapsed;
\* the loop body starts over
StartCycle ==
    /\ pc \in {"spawned", "sleep"}
    /\ cycle < MaxCycles
    /\ pc' = "for"
    /\ cycle' = cycle + 1
    /\ sub_statuses' = <<>>
    /\ idx' = 1
    /\ failed' = {}
    /\ UNCHANGED <<py_services, tree, rw_readers, rw_writer, rw_waiters,
                   global_status, nwrites, readerVars, returned>>

\* variant: the error ends the cycle without a publish
LogPyErr_abort ==
    /\ failed' = failed \cup {idx}
    /\ idx' = idx + 1
    /\ pc' = "sleep"
    /\ UNCHANGED <<sub_statuses, global_status, cycle>>

\* variant: the error leaves the for loop, the probes after idx are skipped
LogPyErr_break ==
    /\ failed' = failed \cup {idx}
    /\ idx' = Len(py_services) + 1
    /\ pc' = "for"
    /\ UNCHANGED <<sub_statuses, global_status, cycle>>

\* variant: the error is propagated out of polling_task, which returns
LogPyErr_exit ==
    /\ failed' = failed \cup {idx}
    /\ idx' = idx + 1
    /\ pc' = "exited"
    /\ UNCHANGED <<sub_statuses, global_status, cycle>>

\* the probe at idx contributes nothing: the error is logged (lines 117-122)
LogPyErr ==
    /\ failed' = failed \cup {idx}
    /\ idx' = idx + 1
    /\ pc' = "for"
    /\ UNCHANGED <<sub_statuses, global_status, cycle>>

\* lines 107-110, 122: call_method0("health") or into_future fails
CallHealthFailed ==
    /\ pc = "for"
    /\ idx <= Len(py_services)
    /\ LogPyErr
    /\ UNCHANGED <<py_services, tree, rw_readers, rw_writer, rw_waiters,
                   nwrites, readerVars, returned>>

\* lines 107-113: the coroutine is turned into a future, which is awaited
CallHealthOk ==
    /\ pc = "for"
    /\ idx <= Len(py_services)
    /\ pc' = "await"
    /\ UNCHANGED <<py_services, tree, rw_readers, rw_writer, rw_waiters,
                   idx, sub_statuses, global_status, cycle, failed,
                   nwrites, readerVars, returned>>

\* lines 113, 120: the awaited health() raised
HealthRaised ==
    /\ pc = "await"
    /\ LogPyErr
    /\ UNCHANGED <<py_services, tree, rw_readers, rw_writer, rw_waiters,
                   nwrites, readerVars, returned>>

\* variant: the converted status is inserted at the front of the Vec
Collect_pushFront(result) ==
    LET status == try_from(result)
    IN  IF status.ok
        THEN /\ sub_statuses' = <<status.value>> \o sub_statuses
             /\ idx' = idx + 1
             /\ pc' = "for"
             /\ UNCHANGED <<global_status, cycle, failed>>
        ELSE LogPyErr

\* lines 114-119: the value health() resolved to is converted and pushed
Collect(result) ==
    LET status == try_from(result)
    IN  IF status.ok
        THEN /\ sub_statuses' = Append(sub_statuses, status.value)
             /\ idx' = idx + 1
             /\ pc' = "for"
             /\ UNCHANGED <<global_status, cycle, failed>>
        ELSE LogPyErr

\* lines 113-119: health() returned a value, which is converted
HealthReturned ==
    /\ pc = "await"
    /\ \E result \in HealthResults(py_services[idx]) : Collect(result)
    /\ UNCHANGED <<py_services, tree, rw_readers, rw_writer, rw_waiters,
                   nwrites, readerVars, returned>>

\* lines 113-119, with the value recorded and drawn from the wider choice
HealthResolved ==
    /\ pc = "await"
    /\ \E result \in PyObjects(py_services[idx]) :
         /\ Collect(result)
         /\ returned' = result
    /\ UNCHANGED <<py_services, tree, rw_readers, rw_writer, rw_waiters,
                   nwrites, readerVars>>

\* lines 126-140: the for loop is over; the root colour is computed and
\* tree.write() is called
Aggregate ==
    /\ pc = "for"
    /\ idx > Len(py_services)
    /\ global_status' = aggregate(sub_statuses)
    /\ IF WriteAvailable
       THEN /\ rw_writer' = TRUE
            /\ pc' = "write"
            /\ UNCHANGED rw_waiters
       ELSE /\ rw_waiters' = Append(rw_waiters, Poller)
            /\ pc' = "write_wait"
            /\ UNCHANGED rw_writer
    /\ UNCHANGED <<py_services, tree, rw_readers, idx, sub_statuses,
                   cycle, failed, nwrites, readerVars, returned>>

\* variant: the write guard is bound to a variable that lives to the end of
\* the loop body, so it is still held during the sleep
WriteTree_holdsGuard ==
    /\ pc = "write"
    /\ tree' = NewTree(global_status, sub_statuses)
    /\ nwrites' = nwrites + 1
    /\ sub_statuses' = <<>>
    /\ pc' = "sleep"
    /\ UNCHANGED <<py_services, rw_readers, rw_writer, rw_waiters, idx,
                   global_status, cycle, failed, readerVars, returned>>

\* lines 140-145: the tree is replaced and the write guard dropped
WriteTree ==
    /\ pc = "write"
    /\ tree' = NewTree(global_status, sub_statuses)
    /\ nwrites' = nwrites + 1
    /\ sub_statuses' = <<>>
    /\ Release(rw_readers, "sleep", rpc)
    /\ UNCHANGED <<py_services, idx, global_status, cycle, failed,
                   resp, rver, issuedAt, lastSeen, returned>>

(***************************************************************************)
(* server.rs: get_health                                                   *)
(***************************************************************************)
\* line 23: a request arrives and asks for the read guard
ReadLock(r) ==
    /\ rpc[r] = "idle"
    /\ issuedAt' = [issuedAt EXCEPT ![r] = nwrites]
    /\ IF ReadAvailable
       THEN /\ rw_readers' = rw_readers \cup {r}
            /\ rpc' = [rpc EXCEPT ![r] = "locked"]
            /\ UNCHANGED rw_waiters
       ELSE /\ rw_waiters' = Append(rw_waiters, r)
            /\ rpc' = [rpc EXCEPT ![r] = "wait"]
            /\ UNCHANGED rw_readers
    /\ UNCHANGED <<py_services, tree, rw_writer, pollerVars, nwrites,
                   resp, rver, lastSeen>>

\* variant: the handlers are given a lock of their own, which nobody writes
Guarded_stale == [tree |-> WarmingUp, ver |-> 0]

\* lines 23-24: what the read guard of state.health_tree dereferences to,
\* with the number of the publish it comes from
Guarded == [tree |-> tree, ver |-> nwrites]

\* line 24: tree.clone(), the fields name and status
CloneStatus(r) ==
    /\ rpc[r] = "locked"
    /\ resp' = [resp EXCEPT ![r] = [@ EXCEPT !.name = Guarded.tree.name,
                                             !.status = Guarded.tree.status]]
    /\ rver' = [rver EXCEPT ![r] = [@ EXCEPT !.status = Guarded.ver]]
    /\ rpc' = [rpc EXCEPT ![r] = "cloning"]
    /\ UNCHANGED <<py_services, tree, rw_readers, rw_writer, rw_waiters,
                   pollerVars, nwrites, issuedAt, lastSeen>>

\* lines 24-25: the fields description and subservices; the guard is dropped
CloneSubservices(r) ==
    /\ rpc[r] = "cloning"
    /\ resp' = [resp EXCEPT ![r] =
                   [@ EXCEPT !.description = Guarded.tree.description,
                             !.subservices = Guarded.tree.subservices]]
    /\ rver' = [rver EXCEPT ![r] = [@ EXCEPT !.subservices = Guarded.ver]]
    /\ Release(rw_readers \ {r}, pc, [rpc EXCEPT ![r] = "done"])
    /\ UNCHANGED <<py_services, tree, idx, sub_statuses, global_status,
                   cycle, failed, nwrites, issuedAt, lastSeen, returned>>

\* the 200 response reaches the client
Respond(r) ==
    /\ rpc[r] = "done"
    /\ rpc' = [rpc EXCEPT ![r] = "idle"]
    /\ lastSeen' = [lastSeen EXCEPT ![r] = rver[r].subservices]
    /\ resp' = [resp EXCEPT ![r] = NoValue]
    /\ rver' = [rver EXCEPT ![r] = [status |-> 0, subservices |-> 0]]
    /\ issuedAt' = [issuedAt EXCEPT ![r] = 0]
    /\ UNCHANGED <<py_services, tree, rw_readers, rw_writer, rw_waiters,
                   pollerVars, nwrites>>

Next ==
    \/ StartCycle
    \/ CallHealthFailed
    \/ CallHealthOk
    \/ HealthRaised
    \/ HealthReturned
    \/ Aggregate
    \/ WriteTree
    \/ \E r \in Readers : ReadLock(r)
    \/ \E r \in Readers : CloneStatus(r)
    \/ \E r \in Readers : CloneSubservices(r)
    \/ \E r \in Readers : Respond(r)

Spec == Init /\ [][Next]_vars

(***************************************************************************)
(* The poller on its own: no request ever reaches the HTTP surface.        *)
(***************************************************************************)
InitPoller == InitWith(Configurations)

NextPoller ==
    \/ StartCycle
    \/ CallHealthFailed
    \/ CallHealthOk
    \/ HealthRaised
    \/ HealthReturned
    \/ Aggregate
    \/ WriteTree

SpecPoller == InitPoller /\ [][NextPoller]_vars

(***************************************************************************)
(* The conversion of probe results: the poller with one probe, whose       *)
(* health() resolves to any of PyObjects.                                  *)
(***************************************************************************)
InitConv == InitWith({<<"db">>})

NextConv ==
    \/ StartCycle
    \/ CallHealthOk
    \/ HealthResolved
    \/ Aggregate
    \/ WriteTree

SpecConv == InitConv /\ [][NextConv]_vars

(***************************************************************************)
(* Scheduling.  The tokio runtime polls a task that is ready, so every     *)
(* step of the poller and of a handler that waits for nothing outside the  *)
(* process is eventually taken: the timer of the sleep fires, the next     *)
(* probe is called, a guard that is granted is used and dropped.  That a   *)
(* pending health() eventually resolves or raises is the assumption made   *)
(* of the probes.                                                          *)
(***************************************************************************)
Fairness ==
    /\ WF_vars(StartCycle)
    /\ WF_vars(CallHealthOk \/ CallHealthFailed)
    /\ WF_vars(HealthRaised \/ HealthReturned)
    /\ WF_vars(Aggregate)
    /\ WF_vars(WriteTree)

FairSpecPoller == SpecPoller /\ Fairness

(***************************************************************************)
(* Properties.                                                             *)
(***************************************************************************)
\* the poller is idle: the tree of the last cycle is published
Idle == pc = "sleep"

\* the root colour of the cycle is computed and the write is in flight
Publishing == pc \in {"write_wait", "write"}

NonEmpty(description) == description.some /\ description.val # ""

IsRedLeaf(node) ==
    node.status = "Red" /\ NonEmpty(node.description) /\ node.subservices = <<>>

ColoursOf(statuses) == [k \in DOMAIN statuses |-> statuses[k].status]

\* C1: at the end of every cycle the published tree holds, for each probe
\* whose invocation failed in the cycle, a leaf with status Red and a
\* non-empty description (children follow the configuration order, so the
\* leaf of probe i is child i).
C1_FailedProbeRedLeaf ==
    Idle => \A i \in failed :
               /\ Len(tree.subservices) = Len(py_services)
               /\ IsRedLeaf(tree.subservices[i])

\* C2: a cycle in which at least one probe failed publishes a Red root.
C2_FailedProbeRedRoot ==
    (Idle /\ failed # {}) => tree.status = "Red"

\* C3: a failed invocation does not abort the cycle: when the poller goes
\* idle it has written once per started cycle, during a cycle it has not yet
\* written for it, and the tree changes only by the poller's write.
C3_OneWritePerCycle ==
    /\ [](/\ (Idle => nwrites = cycle)
          /\ (pc \in {"for", "await", "write_wait", "write"} => nwrites = cycle - 1))
    /\ [][tree' # tree => (pc = "write" /\ pc' = "sleep")]_vars

C3_Witness ==
    Idle /\ failed # {} /\ cycle = MaxCycles /\ nwrites = cycle

\* C4: for a non-empty collection the root is Green iff every child is Green.
C4_GreenIffAllGreen ==
    (Publishing /\ sub_statuses # <<>>) =>
        (global_status = "Green" <=>
            \A k \in DOMAIN sub_statuses : sub_statuses[k].status = "Green")

C4_Witness ==
    /\ Publishing
    /\ ColoursOf(sub_statuses) = <<"Green", "Green", "Green">>
    /\ global_status = "Green"

\* C5: a collection with at least one Red child gives a Red root, whatever
\* the Green and Orange siblings.
C5_AnyRedIsRed ==
    (Publishing /\ \E k \in DOMAIN sub_statuses : sub_statuses[k].status = "Red")
        => global_status = "Red"

C5_Witness ==
    /\ Publishing
    /\ ColoursOf(sub_statuses) = <<"Green", "Orange", "Red">>
    /\ global_status = "Red"

\* C6: a collection with no Red and at least one Orange child gives an
\* Orange root.
C6_OrangeWithoutRed ==
    (/\ Publishing
     /\ \A k \in DOMAIN sub_statuses : sub_statuses[k].status # "Red"
     /\ \E k \in DOMAIN sub_statuses : sub_statuses[k].status = "Orange")
        => global_status = "Orange"

C6_Witness ==
    /\ Publishing
    /\ ColoursOf(sub_statuses) = <<"Green", "Orange">>
    /\ global_status = "Orange"

\* C7: an empty collection aggregates to Green, and with no probe configured
\* the tree published by a cycle is Green with no subservices and no
\* description.
C7_EmptyIsGreen ==
    /\ (Publishing /\ sub_statuses = <<>>) => global_status = "Green"
    /\ (Idle /\ py_services = <<>>) =>
           /\ tree.status = "Green"
           /\ tree.subservices = <<>>
           /\ ~tree.description.some

C7_Witness ==
    Idle /\ py_services = <<>> /\ nwrites = 1 /\ tree.status = "Green"

\* C8: a read that completes before the first publish returns the startup
\* placeholder: Orange, a non-empty description, no subservices.
C8_PlaceholderBeforeFirstPublish ==
    nwrites = 0 =>
        \A r \in Readers :
            rpc[r] = "done" =>
                /\ resp[r].status = "Orange"
                /\ NonEmpty(resp[r].description)
                /\ resp[r].subservices = <<>>

C8_Witness ==
    \E r \in Readers : rpc[r] = "done" /\ nwrites = 0 /\ pc = "await"

\* C9: a read returns one version of the tree in full: its root status and
\* its child list come from the same publish, and a read of the newest
\* publish is the tree the lock holds.
C9_ReadIsOneVersion ==
    \A r \in Readers :
        rpc[r] = "done" =>
            /\ rver[r].status = rver[r].subservices
            /\ rver[r].subservices = nwrites => resp[r] = tree

C9_Witness ==
    \E r, q \in Readers :
        /\ rpc[r] = "done" /\ rver[r].subservices = 0
        /\ rpc[q] = "done" /\ rver[q].subservices = 1
        /\ resp[r] # resp[q]

\* C10: a read issued after the N-th write has completed returns the N-th
\* publish or a later one, and a client reading in sequence never gets an
\* older publish than the one it saw last.
C10_MonotonicVisibility ==
    \A r \in Readers :
        rpc[r] = "done" =>
            /\ rver[r].status >= issuedAt[r]
            /\ rver[r].subservices >= issuedAt[r]
            /\ rver[r].subservices >= lastSeen[r]

C10_Witness ==
    \E r \in Readers :
        rpc[r] = "done" /\ lastSeen[r] = 1 /\ issuedAt[r] = 2 /\ rver[r].subservices = 2

\* the probes whose health() future is pending
InFlight == IF pc = "await" THEN {idx} ELSE {}

\* the poller is between the start of a cycle and the end of its for loop
Polling == pc \in {"for", "await"}

\* C11: probe invocations of one cycle run concurrently: while the
\* invocation of a probe is pending and a later probe is configured, the
\* invocation of that later probe can start.
C11_NextProbeStartsWhilePending ==
    (InFlight # {} /\ idx < Len(py_services)) =>
        ENABLED (CallHealthOk \/ CallHealthFailed)

\* C12: a read never waits on a poll cycle: the write guard is held only for
\* the replacement of the tree, a request issued while the poller is Polling
\* or Idle gets its read guard at once, and the clone it returns is the
\* newest publish.
C12_ReadNeverWaitsOnPoll ==
    /\ [](/\ rw_writer => pc = "write"
          /\ (Polling \/ Idle \/ pc = "spawned") =>
                 (~rw_writer /\ rw_waiters = <<>>)
          /\ \A r \in Readers : rpc[r] = "wait" => Publishing)
    /\ [][\A r \in Readers :
            (rpc[r] = "idle" /\ rpc'[r] # "idle" /\ ~Publishing) =>
                rpc'[r] = "locked"]_vars
    /\ [][\A r \in Readers :
            (rpc[r] = "cloning" /\ rpc'[r] = "done") =>
                (resp'[r] = tree /\ rver'[r].subservices = nwrites)]_vars

C12_Witness ==
    \E r \in Readers :
        /\ rpc[r] = "done" /\ pc = "await"
        /\ issuedAt[r] = 1 /\ cycle = 2 /\ resp[r] = tree

\* the status of a node follows the aggregation rule over its children
Derived(node) ==
    LET colours == ColoursOf(node.subservices)
        allGreen == \A k \in DOMAIN colours : colours[k] = "Green"
        someRed == \E k \in DOMAIN colours : colours[k] = "Red"
    IN  /\ allGreen => node.status = "Green"
        /\ (~allGreen /\ someRed) => node.status = "Red"
        /\ (~allGreen /\ ~someRed) => node.status = "Orange"

\* C15: after the first publish the root status of the shared tree, and of
\* every clone taken of it, is the aggregation rule applied to the children
\* of that same tree; before it the tree is the startup placeholder.
C15_RootDerivedFromChildren ==
    /\ nwrites >= 1 => Derived(tree)
    /\ nwrites = 0 => (tree.status = "Orange" /\ tree.subservices = <<>>)
    /\ \A r \in Readers :
           (rpc[r] = "done" /\ rver[r].subservices >= 1) => Derived(resp[r])

C15_Witness ==
    /\ nwrites = 2 /\ tree.status = "Red" /\ tree.subservices # <<>>
    /\ \E r \in Readers :
           /\ rpc[r] = "done" /\ rver[r].subservices = 1
           /\ resp[r].status = "Orange" /\ resp[r].subservices # <<>>

\* the invocations of this cycle that have completed, with a result or an error
Completed == Len(sub_statuses) + Cardinality(failed)

\* C17: partial results are never published: the write happens only once
\* every configured probe's invocation of the cycle has completed, and from
\* the start of a cycle to its write the shared tree does not change.
C17_NoPartialPublish ==
    /\ [](Publishing => Completed = Len(py_services))
    /\ [][(tree' # tree \/ nwrites' # nwrites) => pc = "write"]_vars
    /\ [][(Polling \/ pc = "write_wait") => tree' = tree]_vars

C17_Witness ==
    /\ Publishing /\ cycle = 2 /\ nwrites = 1
    /\ Len(py_services) = 3 /\ failed # {} /\ Len(sub_statuses) = 2
    /\ tree.subservices # sub_statuses

\* C18: when every probe of a cycle succeeds, the published subservices are
\* the probes' results, one per configured probe, in configuration order:
\* each result is added after the ones collected before it, and the write
\* publishes the collection as it is.
C18_ResultsInConfigurationOrder ==
    /\ []((Idle /\ failed = {}) =>
            /\ Len(tree.subservices) = Len(py_services)
            /\ \A i \in DOMAIN py_services :
                   tree.subservices[i].name = py_services[i])
    /\ [][(pc = "await" /\ Len(sub_statuses') > Len(sub_statuses)) =>
            /\ SubSeq(sub_statuses', 1, Len(sub_statuses)) = sub_statuses
            /\ Len(sub_statuses') = Len(sub_statuses) + 1
            /\ sub_statuses'[Len(sub_statuses')].name = py_services[idx]]_vars
    /\ [][(pc = "write" /\ pc' = "sleep") =>
            (tree'.subservices = sub_statuses /\ tree'.status = global_status)]_vars

C18_Witness ==
    /\ Idle /\ failed = {}
    /\ ColoursOf(tree.subservices) = <<"Green", "Orange", "Red">>
    /\ tree.status = "Red"

\* C19: the poller has no terminal state: under fairness, and with every
\* invocation completing, an idle poller starts the next cycle (as long as
\* the model lets a cycle start), a polling poller reaches its write and
\* goes idle whatever the probes did, and every cycle the model allows is
\* published.
C19_PollerNeverStops ==
    /\ ((pc \in {"spawned", "sleep"} /\ cycle < MaxCycles) ~> Polling)
    /\ ((Polling \/ Publishing) ~> Idle)
    /\ <>[](Idle /\ nwrites = MaxCycles)

C19_Witness ==
    /\ Idle /\ nwrites = MaxCycles /\ cycle = MaxCycles
    /\ Len(py_services) >= 2 /\ failed # {} /\ tree.subservices # <<>>

\* the nodes of a tree, at every depth
RECURSIVE Nodes(_)
Nodes(node) ==
    {node} \cup UNION {Nodes(node.subservices[k]) : k \in DOMAIN node.subservices}

\* C13: in the JSON of any node of the tree served by GET /health, the
\* description key is there only when the description is a non-empty
\* string, and the subservices key only when the node has a child.
C13_JsonKeysOnlyWhenNonEmpty ==
    \A node \in Nodes(tree) :
        /\ "description" \in DOMAIN Json(node) => NonEmpty(node.description)
        /\ "subservices" \in DOMAIN Json(node) => node.subservices # <<>>

\* the item of a dict under a key, Absent when the key is not there
Item(obj, key) == IF key \in DOMAIN obj.items THEN obj.items[key] ELSE Absent

\* a dict that is a status record: name and status are strings, the status
\* the name of a colour, description and subservices optional
IsRecord(obj) ==
    /\ obj.kind = "dict"
    /\ Item(obj, "name").t = "str"
    /\ Item(obj, "status").t = "str"
    /\ Item(obj, "status").s \in {StatusName(c) : c \in StatusColor}
    /\ Item(obj, "description").t \in {"absent", "none", "str"}
    /\ Item(obj, "subservices").t \in {"absent", "list"}

\* the native ServiceStatus exposing the fields of a status record
AsNative(obj) ==
    ServiceStatus_new(
        Item(obj, "name").s,
        CHOOSE c \in StatusColor : StatusName(c) = Item(obj, "status").s,
        IF Item(obj, "description").t = "str"
            THEN Some(Item(obj, "description").s) ELSE None,
        IF Item(obj, "subservices").t = "list"
            THEN Some(Item(obj, "subservices").l) ELSE None)

\* C14: a probe result given as a dict is published as the node that the
\* native ServiceStatus with the same name, status, description and
\* subservices is published as.
C14_DictPublishedAsNative ==
    (Idle /\ IsRecord(returned)) =>
        tree.subservices = <<try_from(PyNative(AsNative(returned))).value>>

\* C16: in every published tree every node that has children, at any depth,
\* has the status the aggregation rule gives for its children.
C16_EveryNodeDerived ==
    Idle => \A node \in Nodes(tree) : node.subservices # <<>> => Derived(node)

====
